---- MODULE Spec2Model ----
(***************************************************************************)
(* JWTAuthClient (examples/clients/python/jwt_auth_client.py): the token   *)
(* lifecycle of the client -- credential storage, the renewal timer, the   *)
(* 401-triggered refresh-and-retry of _make_request, login, refresh,       *)
(* logout -- as a state machine.  A step is the part of a handler that     *)
(* runs between two blocking HTTP exchanges; the service's answer to each  *)
(* exchange is an input.  Spec runs the caller's operations and the timer  *)
(* callbacks one after the other; ConcSpec interleaves them, with the      *)
(* statements that store a token answer as steps of their own.             *)
(***************************************************************************)
EXTENDS Integers, Sequences, FiniteSets, TLC

\* ------------------------------------------------------------------ bounds
MaxIssue == 2       \* token pairs the service issues in one behaviour
MaxTicks == 2       \* clock advances in one behaviour
MaxTimers == 2      \* threading.Timer objects alive at the same time
MaxCalls == 2       \* public operations the caller starts in one behaviour in
                    \* which operations overlap

\* ------------------------------------------------------- program constants
RefreshMargin == 30         \* refresh_time = expires_in - 30
DefaultExpiresIn == 3600    \* response.get("expires_in", 3600)
Unauthorized == 401         \* e.response.status_code == 401

\* ------------------------------------------------------------------ values
None == <<>>                \* Python None
Empty == <<"">>             \* the empty string '' (set_tokens(token, ''))
NoTimer == 0                \* _refresh_timer is None
NoStatus == 0               \* JWTAuthError.status_code is None
Some(n) == <<n>>

AccessTok(g) == <<"access", g>>
RefreshTok(g) == <<"refresh", g>>

\* (variant: a refresh token that is the empty string counts as held)
TruthyNotNone(x) == x # None

\* Python truthiness of an Optional[str]
Truthy(x) == x # None /\ x # Empty

FG == 0                         \* the foreground (caller's) thread
TimerIds == 1..MaxTimers        \* timer i runs its callback on thread i
Threads == {FG} \cup TimerIds

ExpiresInSet == {10, 30, 31}           \* lifetimes the service grants
ErrStatus == {401, 403, 503}           \* HTTP error statuses of the service
Methods == {"GET", "POST"}             \* HTTP methods of the requests
Msgs == {"mA", "mB"}                   \* "message" of an error body
\* the clock advances in steps of 3570 s, the interval of the default lifetime
ClockStep == DefaultExpiresIn - RefreshMargin

\* frame.op: "call" is a public operation that is only
\* return self._make_request(...) without authenticated=True (signup,
\* verify_email); "authenticated_request" one that is only
\* return self._make_request(..., authenticated=True) (get_profile,
\* resend_verification, authenticated_request)
AuthOps == {"logout", "logout_all", "authenticated_request"}
PassThroughOps == {"authenticated_request"}
TokenOps == {"login", "refresh", "auto_refresh"}

VARIABLES
    access_token,       \* self.access_token
    refresh_token,      \* self.refresh_token
    token_expires_at,   \* self.token_expires_at
    refresh_timer,      \* self._refresh_timer: NoTimer or a timer id
    timers,             \* the threading.Timer objects
    auto_refresh,       \* self.auto_refresh
    now,                \* datetime.now()
    issued,             \* token pairs issued by the service so far
    frame,              \* per thread: the public operation in progress / last ended
    chain,              \* the current run login -> refresh*: its length (capped) and
                        \* the expires_in of the latest store of tokens
    overlap,            \* whether the caller's operations and the timer callbacks
                        \* run interleaved (TRUE) or one after the other (FALSE)
    calls               \* public operations the caller has started while
                        \* operations overlap

vars == <<access_token, refresh_token, token_expires_at, refresh_timer, timers,
          auto_refresh, now, issued, frame, chain, overlap, calls>>

\* what no operation assigns
setup == <<auto_refresh, overlap>>

\* ------------------------------------------------------------- responses
NoResp == [kind |-> "none", status |-> NoStatus, msg |-> "",
           access_token |-> None, refresh_token |-> None, expires_in |-> None]

\* a 2xx answer of an endpoint with a service-defined body
OkPlain == [NoResp EXCEPT !.kind = "ok", !.status = 200]

\* a 4xx/5xx answer: raise_for_status() raises HTTPError
HttpErrors == {[NoResp EXCEPT !.kind = "http", !.status = s, !.msg = m] :
                 s \in ErrStatus, m \in Msgs}

\* no answer at all: the connection fails
ConnectionFailure == [NoResp EXCEPT !.kind = "conn"]

\* the outcome of the last attempt the adapter makes for one session.request()
RawErrors == HttpErrors \cup {ConnectionFailure}

\* Retry(total=3, backoff_factor=1, status_forcelist=[429, 500, 502, 503, 504])
\* (lines 46-50); allowed_methods is left at the default of Retry, which has
\* no POST
StatusForcelist == {429, 500, 502, 503, 504}
AllowedMethods == {"DELETE", "GET", "HEAD", "OPTIONS", "PUT", "TRACE"}

\* session.request() raises with the retries used up: ConnectionError, or
\* RetryError after a forcelisted status; neither is an HTTPError and neither
\* has a response (status records the status the adapter saw last)
TransportFailure(raw) ==
    [NoResp EXCEPT !.kind = "exc", !.status = raw.status,
                   !.msg = IF raw.kind = "conn" THEN "ConnectionError" ELSE "RetryError"]

\* what session.request(method, ...) does when raw is the outcome of the
\* adapter's last attempt: a failed connection is retried for every method and
\* a forcelisted status for the allowed methods, until the retries are used up;
\* any other answer is returned, and raise_for_status() (line 73) raises
\* HTTPError for a 4xx/5xx one
Transport(method, raw) ==
    IF \/ raw.kind = "conn"
       \/ raw.kind = "http" /\ raw.status \in StatusForcelist /\ method \in AllowedMethods
    THEN TransportFailure(raw)
    ELSE raw

\* a 2xx answer of /auth/login or /auth/refresh: a new access token, a new
\* refresh token (the service rotates it), and expires_in or not
TokenGrants ==
    IF issued < MaxIssue
    THEN {[NoResp EXCEPT !.kind = "ok", !.status = 200,
                         !.access_token = AccessTok(issued + 1),
                         !.refresh_token = RefreshTok(issued + 1),
                         !.expires_in = e] :
            e \in {None} \cup {Some(n) : n \in ExpiresInSet}}
    ELSE {}

\* ----------------------------------------------------------------- frames
NoRet == [kind |-> "none", status |-> NoStatus, msg |-> "", src |-> "none"]

\* op: the public operation; pc: the exchange in flight ("first", "refreshing",
\* "retry") or "idle"; method: the HTTP method; hdr: the bearer token of the request's Authorization
\* header; data: the refresh_token of its JSON body; rdata: the refresh_token in
\* the body of the nested /auth/refresh; first: the first attempt's answer (e);
\* second: the answer to the retried request;
\* grant: the answer of the nested /auth/refresh; refreshed: how self.refresh()
\* of line 80 ended ("none", "ok", "failed"); held: what line 77 read as
\* bool(self.refresh_token); ntransport, nrefresh, nretry: session.request()
\* calls, refresh() calls and retried requests made by the operation; ret: what
\* the caller received.  The locals of _make_request (hdr, data, rdata, grant,
\* the message of first, method) are gone once it has returned.  sub: the
\* statement the thread executes next inside the block that stores a token
\* answer ("" outside of it); got: what get_tokens() returned.
IdleFrame == [op |-> "none", pc |-> "idle", sub |-> "", got |-> None,
              method |-> "", hdr |-> None, data |-> None,
              rdata |-> None, first |-> NoResp, second |-> NoResp, grant |-> NoResp,
              refreshed |-> "none", held |-> FALSE,
              ntransport |-> 0, nrefresh |-> 0, nretry |-> 0, ret |-> NoRet]

\* ------------------------------------------------------------------ timers
UnusedTimer == [status |-> "unused", interval |-> 0, deadline |-> 0]

Live(tm, i) == tm[i].status = "started"
LiveTimers(tm) == {i \in TimerIds : Live(tm, i)}

\* the client's mutable fields as one record, so that handlers compose
Store == [a |-> access_token, r |-> refresh_token, e |-> token_expires_at,
          tm |-> timers, rt |-> refresh_timer, ch |-> chain]

SetStore(S) ==
    /\ access_token' = S.a
    /\ refresh_token' = S.r
    /\ token_expires_at' = S.e
    /\ timers' = S.tm
    /\ refresh_timer' = S.rt
    /\ chain' = S.ch

\* threading.Timer.cancel(): stops a timer that has not fired yet
Ended(status) == [status |-> status, interval |-> 0, deadline |-> 0]
TimerCancel(tm, i) ==
    IF tm[i].status = "started" THEN [tm EXCEPT ![i] = Ended("cancelled")] ELSE tm

\* (variant: the reference is dropped, the timer is not cancelled)
CancelRefreshTimerNoCancel(S) == [S EXCEPT !.rt = NoTimer]

\* _cancel_refresh_timer (lines 256-260)
CancelRefreshTimer(S) ==
    IF S.rt # NoTimer
    THEN [S EXCEPT !.tm = TimerCancel(S.tm, S.rt), !.rt = NoTimer]
    ELSE S

\* a Timer object that can be allocated: not started-and-pending, not running
FreeSlots(S) == {i \in TimerIds : S.tm[i].status \in {"unused", "cancelled", "finished"}
                                   /\ S.rt # i}
CanArm(S) == FreeSlots(CancelRefreshTimer(S)) # {}

\* refresh_time = expires_in - 30 (line 239)
RefreshTime(expires_in) == expires_in - RefreshMargin

\* (variant: >= instead of >)
ShouldArmAtZero(refresh_time) == refresh_time >= 0

\* if refresh_time > 0 (line 240)
ShouldArm(refresh_time) == refresh_time > 0

\* _schedule_token_refresh after its _cancel_refresh_timer() (lines 239-246)
ArmTimer(C, expires_in, t) ==
    LET refresh_time == RefreshTime(expires_in)
        i == CHOOSE j \in FreeSlots(C) : \A k \in FreeSlots(C) : j <= k
    IN  IF ShouldArm(refresh_time)
        THEN [C EXCEPT !.tm[i] = [status |-> "started", interval |-> refresh_time,
                                  deadline |-> t + refresh_time],
                       !.rt = i]
        ELSE C

\* _schedule_token_refresh (lines 234-246)
ScheduleTokenRefresh(S, expires_in, t) ==
    ArmTimer(CancelRefreshTimer(S), expires_in, t)

\* the run login -> refresh*: 0 outside of one, 1 after the login, 2 after a
\* refresh that follows it
NoChain == [n |-> 0, expires_in |-> 0]
ChainAfter(ch, op, expires_in) ==
    [n |-> IF op = "login" THEN 1 ELSE IF ch.n = 0 THEN 0 ELSE 2,
     expires_in |-> expires_in]

\* (variant: token_expires_at is not reset)
ClearTokensKeepExpiry(S) ==
    CancelRefreshTimer([S EXCEPT !.a = None, !.r = None, !.ch = NoChain])

\* _clear_tokens (lines 262-267)
ClearTokens(S) ==
    CancelRefreshTimer([S EXCEPT !.a = None, !.r = None, !.e = None, !.ch = NoChain])

\* (variant: the lifetime is not added to the clock reading)
ExpiresAtNoClock(t, expires_in) == expires_in

\* datetime.now() + timedelta(seconds=expires_in) (lines 129, 152, 229)
ExpiresAt(t, expires_in) == t + expires_in

\* response.get("expires_in", 3600) (lines 128, 151)
GrantedExpiresIn(resp) ==
    IF resp.expires_in = None THEN DefaultExpiresIn ELSE resp.expires_in[1]


\* (variant: the rotated refresh token is not stored)
StoreTokensKeepRefresh(S, resp, t, op) ==
    LET expires_in == GrantedExpiresIn(resp)
        S1 == [S EXCEPT !.a = resp.access_token,
                        !.e = Some(ExpiresAt(t, expires_in)),
                        !.ch = ChainAfter(S.ch, op, expires_in)]
    IN  IF auto_refresh THEN ScheduleTokenRefresh(S1, expires_in, t) ELSE S1

\* "Store tokens" of login (lines 125-133) and "Update tokens" of refresh (148-156)
StoreTokens(S, resp, t, op) ==
    LET expires_in == GrantedExpiresIn(resp)
        S1 == [S EXCEPT !.a = resp.access_token,
                        !.r = resp.refresh_token,
                        !.e = Some(ExpiresAt(t, expires_in)),
                        !.ch = ChainAfter(S.ch, op, expires_in)]
    IN  IF auto_refresh THEN ScheduleTokenRefresh(S1, expires_in, t) ELSE S1

\* set_tokens (lines 224-232)
SetTokensStore(S, a, r, expires_in, t) ==
    LET S1 == [S EXCEPT !.a = a, !.r = r, !.e = Some(ExpiresAt(t, expires_in)),
                        !.ch = [NoChain EXCEPT !.expires_in = expires_in]]
    IN  IF auto_refresh THEN ScheduleTokenRefresh(S1, expires_in, t) ELSE S1

\* get_tokens (lines 220-222)
get_tokens == <<access_token, refresh_token>>

\* --------------------------------------------------------- _make_request
\* headers["Authorization"] is set if authenticated and self.access_token (61-63)
BearerHeader(authenticated, tok) == IF authenticated /\ Truthy(tok) THEN tok ELSE None

\* (variant: the test of line 77 does not look at authenticated)
NeedsRefreshUnauthenticated(status, authenticated, rt) ==
    status = Unauthorized /\ Truthy(rt)

\* e.response.status_code == 401 and authenticated and self.refresh_token (line 77)
NeedsRefresh(status, authenticated, rt) ==
    status = Unauthorized /\ authenticated /\ Truthy(rt)

\* (variant: the retried request is sent whether or not refresh() raised)
RetryAlways(refreshed) == TRUE

\* the retried request (lines 81-88) is sent only when self.refresh() returned:
\* an exception of refresh() leaves the try block before it (lines 79-92)
RetryAfterRefresh(refreshed) == refreshed

\* (variant: the handler clears the tokens)
ExceptClear(S) == ClearTokens(S)

\* except Exception: pass (lines 91-92): the failure of the refresh or of the
\* retried request is dropped, the client's fields stay as they are
ExceptPass(S) == S

\* raise JWTAuthError(message=error_data.get("message"), status_code=
\* e.response.status_code) (lines 95-107): e is the first attempt's HTTPError
RaisedFault(first, last) ==
    [kind |-> "fault", status |-> first.status, msg |-> first.msg, src |-> "first"]

\* return response.json() (line 74 for the first attempt, line 90 for the retry)
OkRet(resp, src) == [kind |-> "ok", status |-> resp.status, msg |-> resp.msg, src |-> src]

\* an exception of session.request() that is no HTTPError leaves _make_request
ExcRet(resp) == [kind |-> "exc", status |-> NoStatus, msg |-> resp.msg, src |-> "first"]

\* raise JWTAuthError("No refresh token available") (line 140)
NoRefreshTokenFault ==
    [kind |-> "fault", status |-> NoStatus, msg |-> "No refresh token available",
     src |-> "local"]

\* (variant: logout without a refresh token raises, as refresh does)
LogoutWithoutTokenRaises ==
    [kind |-> "fault", status |-> NoStatus, msg |-> "No refresh token available",
     src |-> "local"]

\* return {"message": "Already logged out"} (line 163)
AlreadyLoggedOut ==
    [kind |-> "ok", status |-> NoStatus, msg |-> "Already logged out", src |-> "local"]

\* (variant: every authenticated operation clears in a finally, as logout does)
AfterRequestAlwaysClear(op, S, ret, resp, t) ==
    IF op \in TokenOps
    THEN IF ret.kind = "ok" THEN StoreTokens(S, resp, t, op) ELSE S
    ELSE IF op \in AuthOps THEN ClearTokens(S)
    ELSE S

\* what the public operation does once _make_request has returned or raised:
\* login (125-133) and refresh (148-156) store the tokens of a 2xx answer,
\* logout and logout_all clear in their finally (172-174, 186-187), the others
\* return the result as it is (193, 197-201, 205-209, 214)
AfterRequest(op, S, ret, resp, t) ==
    IF op \in TokenOps
    THEN IF ret.kind = "ok" THEN StoreTokens(S, resp, t, op) ELSE S
    ELSE IF op \in {"logout", "logout_all"} THEN ClearTokens(S)
    ELSE S

\* Timer.run(): self.finished.set() once the callback has returned
TimerDone(S, t) ==
    IF t \in TimerIds THEN [S EXCEPT !.tm[t] = Ended("finished")] ELSE S

\* (variant: the callback has no except clause)
AutoRefreshRetUncaught(ret) == ret

\* _auto_refresh_token (248-254): the exception of refresh() is caught and printed
AutoRefreshRet(ret) ==
    IF ret.kind = "ok"
    THEN [NoRet EXCEPT !.kind = "ok", !.msg = "Token automatically refreshed"]
    ELSE [NoRet EXCEPT !.kind = "caught", !.msg = "Auto-refresh failed"]

\* ------------------------------------------------------------------- state
Constructed ==
    /\ access_token = None
    /\ refresh_token = None
    /\ token_expires_at = None
    /\ refresh_timer = NoTimer
    /\ timers = [i \in TimerIds |-> UnusedTimer]
    /\ auto_refresh \in BOOLEAN
    /\ now = 0
    /\ issued = 0
    /\ frame = [t \in Threads |-> IdleFrame]
    /\ chain = NoChain

\* operations run one after the other
Init == Constructed /\ overlap = FALSE /\ calls = 0

storeVars == <<access_token, refresh_token, token_expires_at, refresh_timer, timers,
               chain>>

\* unless operations overlap, a thread starts one when no other thread is in one
OthersIdle(t) == overlap \/ \A u \in Threads \ {t} : frame[u].pc = "idle"

CanStart ==
    /\ frame[FG].pc = "idle" /\ OthersIdle(FG)
    /\ overlap => calls < MaxCalls
    /\ calls' = IF overlap THEN calls + 1 ELSE calls

\* the first session.request() of _make_request (lines 59-72)
NewCall(op, method, data) ==
    [IdleFrame EXCEPT !.op = op, !.pc = "first", !.method = method,
                      !.hdr = BearerHeader(op \in AuthOps, access_token),
                      !.data = data, !.ntransport = 1]

\* an operation that ends without an HTTP exchange
LocalEnd(op, ret) == [IdleFrame EXCEPT !.op = op, !.ret = ret]

Call(op, method, data) ==
    /\ CanStart
    /\ frame' = [frame EXCEPT ![FG] = NewCall(op, method, data)]
    /\ UNCHANGED <<storeVars, setup, now, issued>>

\* signup (lines 109-115)
Signup == Call("call", "POST", None)

\* login (lines 117-123)
Login == Call("login", "POST", None)

\* verify_email (lines 195-201)
VerifyEmail == Call("call", "POST", None)

\* get_profile (lines 191-193)
GetProfile == Call("authenticated_request", "GET", None)

\* resend_verification (lines 203-209)
ResendVerification == Call("authenticated_request", "POST", None)

\* authenticated_request (lines 211-214)
AuthenticatedRequest == \E method \in Methods : Call("authenticated_request", method, None)

\* logout_all (lines 178-185)
LogoutAll == Call("logout_all", "POST", None)

\* refresh (lines 137-146)
Refresh ==
    /\ CanStart
    /\ frame' = [frame EXCEPT ![FG] =
                    IF Truthy(refresh_token) THEN NewCall("refresh", "POST", refresh_token)
                    ELSE LocalEnd("refresh", NoRefreshTokenFault)]
    /\ UNCHANGED <<storeVars, setup, now, issued>>

\* logout (lines 160-171)
Logout ==
    /\ CanStart
    /\ frame' = [frame EXCEPT ![FG] =
                    IF Truthy(refresh_token) THEN NewCall("logout", "POST", refresh_token)
                    ELSE LocalEnd("logout", AlreadyLoggedOut)]
    /\ UNCHANGED <<storeVars, setup, now, issued>>

\* set_tokens (lines 224-232); the arguments come from the caller's storage
SetTokens ==
    /\ CanStart
    /\ CanArm(Store)
    /\ \E a \in {AccessTok(0)}, r \in {RefreshTok(0), Empty}, e \in ExpiresInSet \cup {DefaultExpiresIn} :
          /\ SetStore(SetTokensStore(Store, a, r, e, now))
          /\ frame' = [frame EXCEPT ![FG] = LocalEnd("set_tokens", NoRet)]
    /\ UNCHANGED <<setup, now, issued>>

\* the renewal timer i fires: Timer.run() calls _auto_refresh_token (248-254),
\* which calls refresh() (137-146)
Fire(i) ==
    /\ timers[i].status = "started"
    /\ now >= timers[i].deadline
    /\ frame[i].pc = "idle"
    /\ OthersIdle(i)
    /\ IF Truthy(refresh_token)
       THEN /\ frame' = [frame EXCEPT ![i] = NewCall("auto_refresh", "POST", refresh_token)]
            /\ timers' = [timers EXCEPT ![i].status = "running"]
       ELSE /\ frame' = [frame EXCEPT ![i] =
                            LocalEnd("auto_refresh", AutoRefreshRet(NoRefreshTokenFault))]
            /\ timers' = [timers EXCEPT ![i] = Ended("finished")]
    /\ UNCHANGED <<access_token, refresh_token, token_expires_at, refresh_timer, chain,
                   setup, calls, now, issued>>

\* the answers the service can give to the request of frame f
Errors(method) == {Transport(method, raw) : raw \in RawErrors}
FirstAnswers(f) ==
    Errors(f.method) \cup (IF f.op \in TokenOps THEN TokenGrants ELSE {OkPlain})

\* the operation of thread t ends: _make_request returned or raised ret
EndedFrame(f, ret) ==
    IF f.op = "auto_refresh"
    THEN LocalEnd(f.op, AutoRefreshRet(ret))
    ELSE [f EXCEPT !.pc = "idle", !.sub = "", !.method = "",
                   !.hdr = None, !.data = None, !.rdata = None,
                   !.first = [f.first EXCEPT !.msg = ""],
                   !.grant = NoResp,
                   !.ret = ret]

Finish(t, f, S, ret, resp) ==
    /\ SetStore(TimerDone(AfterRequest(f.op, S, ret, resp, now), t))
    /\ frame' = [frame EXCEPT ![t] = EndedFrame(f, ret)]

\* with overlapping operations the statements that store a token answer are
\* steps of their own; the first one is self.access_token = ... (lines 126, 149)
BeginStore(t, f, resp) ==
    /\ access_token' = resp.access_token
    /\ frame' = [frame EXCEPT ![t] = [f EXCEPT !.sub = "refresh_token", !.grant = resp]]
    /\ UNCHANGED <<refresh_token, token_expires_at, refresh_timer, timers, chain>>

\* the answer to the first attempt arrives (lines 73-77, 94-107)
RespondFirst(t) ==
    /\ frame[t].pc = "first" /\ frame[t].sub = ""
    /\ \E resp \in FirstAnswers(frame[t]) :
         LET f == frame[t] IN
         /\ (resp.kind = "ok" /\ f.op \in TokenOps) => CanArm(Store)
         /\ issued' = IF resp.access_token # None THEN issued + 1 ELSE issued
         /\ IF resp.kind = "ok"
            THEN IF overlap /\ f.op \in TokenOps
                 THEN BeginStore(t, f, resp)
                 ELSE Finish(t, f, Store, OkRet(resp, "first"), resp)
            ELSE IF resp.kind = "exc"
            THEN Finish(t, [f EXCEPT !.first = resp], Store, ExcRet(resp), resp)
            ELSE IF NeedsRefresh(resp.status, f.op \in AuthOps, refresh_token)
            THEN \* self.refresh() (line 80) sends its request (lines 139-146)
                 /\ frame' = [frame EXCEPT ![t] =
                       [f EXCEPT !.pc = "refreshing", !.first = resp,
                                 !.held = TRUE, !.rdata = refresh_token,
                                 !.nrefresh = f.nrefresh + 1,
                                 !.ntransport = f.ntransport + 1]]
                 /\ UNCHANGED storeVars
            ELSE Finish(t, [f EXCEPT !.first = resp, !.held = Truthy(refresh_token)],
                        Store, RaisedFault(resp, resp), resp)
    /\ UNCHANGED <<setup, calls, now>>

\* headers["Authorization"] = f"Bearer {self.access_token}" (line 81) and the
\* retried session.request() (lines 82-88)
RetryFrame(f, a, resp, refreshed) ==
    [f EXCEPT !.pc = "retry", !.sub = "", !.grant = resp,
              !.refreshed = IF refreshed THEN "ok" ELSE "failed",
              !.hdr = IF refreshed THEN a ELSE f.hdr,
              !.nretry = f.nretry + 1,
              !.ntransport = f.ntransport + 1]

\* the answer to the /auth/refresh request of line 80 arrives (lines 148-158,
\* then 81-88, or 91-107)
RespondRefresh(t) ==
    /\ frame[t].pc = "refreshing" /\ frame[t].sub = ""
    /\ \E resp \in Errors("POST") \cup TokenGrants :
         LET f == frame[t]
             refreshed == resp.kind = "ok"
             S == IF refreshed THEN StoreTokens(Store, resp, now, "refresh") ELSE Store
         IN
         /\ refreshed => CanArm(Store)
         /\ issued' = IF refreshed THEN issued + 1 ELSE issued
         /\ IF overlap /\ refreshed
            THEN BeginStore(t, f, resp)
            ELSE IF RetryAfterRefresh(refreshed)
            THEN /\ SetStore(S)
                 /\ frame' = [frame EXCEPT ![t] = RetryFrame(f, S.a, resp, refreshed)]
            ELSE Finish(t, [f EXCEPT !.refreshed = "failed"], ExceptPass(S),
                        RaisedFault(f.first, resp), resp)
    /\ UNCHANGED <<setup, calls, now>>

\* the answer to the retried request arrives (lines 89-92, 94-107)
RespondRetry(t) ==
    /\ frame[t].pc = "retry"
    /\ \E resp \in Errors(frame[t].method) \cup {OkPlain} :
         LET f == frame[t]
             g == [f EXCEPT !.second = resp] IN
         IF resp.kind = "ok"
         THEN Finish(t, g, Store, OkRet(resp, "retry"), resp)
         ELSE Finish(t, g, ExceptPass(Store), RaisedFault(f.first, resp), resp)
    /\ UNCHANGED <<setup, calls, now, issued>>

\* the statement after sub in the block that stores a token answer:
\* self.refresh_token = ... (127, 150), self.token_expires_at = ... (128-129,
\* 151-152), then under auto_refresh _cancel_refresh_timer() (237) and the rest
\* of _schedule_token_refresh (239-246)
SubAfter(sub) ==
    CASE sub = "refresh_token" -> "expires_at"
      [] sub = "expires_at" -> IF auto_refresh THEN "cancel" ELSE ""
      [] sub = "cancel" -> "arm"
      [] sub = "arm" -> ""

\* one statement of that block, executed by thread t
StoreStep(t) ==
    LET f == frame[t]
        expires_in == GrantedExpiresIn(f.grant)
        S == CASE f.sub = "refresh_token" -> [Store EXCEPT !.r = f.grant.refresh_token]
               [] f.sub = "expires_at" ->
                     [Store EXCEPT !.e = Some(ExpiresAt(now, expires_in)),
                                   !.ch = ChainAfter(chain, f.op, expires_in)]
               [] f.sub = "cancel" -> CancelRefreshTimer(Store)
               [] f.sub = "arm" -> ArmTimer(Store, expires_in, now)
    IN
    /\ f.sub # ""
    /\ (f.sub = "arm" /\ ShouldArm(RefreshTime(expires_in))) => FreeSlots(Store) # {}
    /\ IF SubAfter(f.sub) # ""
       THEN /\ SetStore(S)
            /\ frame' = [frame EXCEPT ![t] = [f EXCEPT !.sub = SubAfter(f.sub)]]
       ELSE IF f.pc = "first"
       THEN \* login or refresh returns (lines 135, 158)
            /\ SetStore(TimerDone(S, t))
            /\ frame' = [frame EXCEPT ![t] = EndedFrame(f, OkRet(f.grant, "first"))]
       ELSE \* self.refresh() of line 80 has returned
            /\ SetStore(S)
            /\ frame' = [frame EXCEPT ![t] = RetryFrame(f, S.a, f.grant, TRUE)]
    /\ UNCHANGED <<setup, calls, now, issued>>

\* get_tokens (lines 220-222), called while other threads run
GetTokens ==
    /\ CanStart
    /\ frame' = [frame EXCEPT ![FG] =
                    [LocalEnd("get_tokens", NoRet) EXCEPT !.got = get_tokens]]
    /\ UNCHANGED <<storeVars, setup, now, issued>>

\* close (lines 269-272): _cancel_refresh_timer(), session.close()
Close ==
    /\ CanStart
    /\ SetStore(CancelRefreshTimer(Store))
    /\ frame' = [frame EXCEPT ![FG] = LocalEnd("close", NoRet)]
    /\ UNCHANGED <<setup, now, issued>>

\* time passes
Tick ==
    /\ now + ClockStep <= MaxTicks * ClockStep
    /\ now' = now + ClockStep
    /\ UNCHANGED <<storeVars, setup, calls, issued, frame>>

Next ==
    \/ Signup
    \/ Login
    \/ VerifyEmail
    \/ GetProfile
    \/ ResendVerification
    \/ AuthenticatedRequest
    \/ Refresh
    \/ Logout
    \/ LogoutAll
    \/ SetTokens
    \/ \E i \in TimerIds : Fire(i)
    \/ \E t \in Threads : RespondFirst(t)
    \/ \E t \in Threads : RespondRefresh(t)
    \/ \E t \in Threads : RespondRetry(t)
    \/ Tick

Spec == Init /\ [][Next]_vars

\* the caller's thread and the timer threads run interleaved: an operation of
\* the caller and the callbacks of fired timers are in progress at the same time
ConcInit == Constructed /\ overlap = TRUE /\ calls = 0

ConcNext ==
    \/ Signup
    \/ Login
    \/ VerifyEmail
    \/ GetProfile
    \/ ResendVerification
    \/ AuthenticatedRequest
    \/ Refresh
    \/ Logout
    \/ LogoutAll
    \/ SetTokens
    \/ GetTokens
    \/ Close
    \/ \E i \in TimerIds : Fire(i)
    \/ \E t \in Threads : RespondFirst(t)
    \/ \E t \in Threads : RespondRefresh(t)
    \/ \E t \in Threads : RespondRetry(t)
    \/ \E t \in Threads : StoreStep(t)
    \/ Tick

ConcSpec == ConcInit /\ [][ConcNext]_vars

\* ------------------------------------------------------------------ claims
Cleared == access_token = None /\ refresh_token = None /\ token_expires_at = None
clientVars == <<access_token, refresh_token, token_expires_at, refresh_timer, timers>>

\* thread t's operation ends in this step, out of the exchange pc
Ends(t, pc) == frame[t].pc = pc /\ frame'[t].pc = "idle"

\* C1: an authenticated call whose first attempt fails with 401 while a refresh
\* token is held makes exactly one refresh() call and at most one retried
\* request: one if that refresh succeeded, none if it failed; no call makes a
\* second refresh or a second retry, and no other call makes any.
C1_OneRefreshOneRetry ==
    \A t \in Threads :
        LET f == frame[t]
            reactive == f.op \in AuthOps /\ f.first.kind = "http"
                        /\ f.first.status = 401 /\ f.held
        IN  /\ f.nrefresh <= 1
            /\ f.nretry <= 1
            /\ reactive => /\ f.nrefresh = 1
                           /\ f.refreshed = "ok" => f.nretry = 1
                           /\ f.refreshed = "failed" => f.nretry = 0
                           /\ f.pc = "idle" => f.refreshed \in {"ok", "failed"}
                           /\ f.ntransport = 1 + f.nrefresh + f.nretry
            /\ ~reactive => f.nrefresh = 0 /\ f.nretry = 0 /\ f.ntransport <= 1

\* C1 witness: an authenticated call has returned after a 401, one refresh and a
\* retried request that failed with 401 again
C1_Witness ==
    /\ frame[FG].pc = "idle" /\ frame[FG].op \in AuthOps
    /\ frame[FG].nrefresh = 1 /\ frame[FG].nretry = 1
    /\ frame[FG].second.kind = "http" /\ frame[FG].second.status = 401

\* C2 (as claimed): when the first attempt of an authenticated call returns 401
\* with a refresh token held and the refresh fails, the caller receives a fault
\* and, when the call has returned, the Credential Pair is cleared.
C2_AsClaimed ==
    (frame[FG].pc = "idle" /\ frame[FG].op \in AuthOps /\ frame[FG].refreshed = "failed")
        => (frame[FG].ret.kind = "fault" /\ Cleared)

\* C2 (amended): when the refresh fails, the caller receives the fault of the
\* first attempt (its 401 status and its message), and the call changes neither
\* the Credential Pair nor the renewal timer, unless it is logout or logout_all,
\* which clear the pair and disarm the timer in their finally.
C2_RefreshFailureRaisesFirstFault ==
    [][\A t \in Threads :
          Ends(t, "refreshing") =>
              /\ frame'[t].refreshed = "failed"
              /\ frame'[t].ret = [kind |-> "fault", status |-> 401,
                                  msg |-> frame[t].first.msg, src |-> "first"]
              /\ IF frame[t].op \in PassThroughOps
                 THEN UNCHANGED clientVars /\ ~Cleared'
                 ELSE Cleared' /\ LiveTimers(timers') = {} /\ refresh_timer' = NoTimer]_vars

\* C2 witness: an authenticated request has returned after a failed refresh and
\* the tokens are still held
C2_Witness ==
    /\ frame[FG].pc = "idle" /\ frame[FG].op \in PassThroughOps
    /\ frame[FG].refreshed = "failed" /\ frame[FG].ret.kind = "fault"
    /\ Truthy(access_token) /\ Truthy(refresh_token)

\* C3 (as claimed): whenever logout() has finished, whatever the answer of the
\* service, the Credential Pair is cleared and no renewal timer is armed.
C3_LogoutAlwaysClears ==
    (frame[FG].pc = "idle" /\ frame[FG].op = "logout")
        => (Cleared /\ LiveTimers(timers) = {})

\* C4 (as claimed): when the retried request of an authenticated call fails, the
\* fault the caller receives is that of the retried request, status and message.
C4_AsClaimed ==
    \A t \in Threads :
        (frame[t].pc = "idle" /\ frame[t].nretry = 1 /\ frame[t].second.kind # "ok")
            => /\ frame[t].ret.status = frame[t].second.status
               /\ frame[t].ret.msg = frame[t].second.msg

\* the code at C4's case: the caller receives the fault of the first attempt
\* (here the retried request got 403, the caller a 401)
C4_Observed ==
    /\ frame[FG].pc = "idle" /\ frame[FG].nretry = 1
    /\ frame[FG].second.kind = "http" /\ frame[FG].second.status = 403
    /\ frame[FG].ret.kind = "fault" /\ frame[FG].ret.status = 401

\* C5: when the first attempt returns 401 with a refresh token held and the
\* refresh succeeds, the tokens of that refresh are stored and the retried
\* request carries the new access token; when the retried request succeeds, the
\* caller receives its result and get_tokens() returns the tokens of that
\* refresh (after logout and logout_all, which clear them, it returns none).
C5_RefreshThenRetrySucceeds ==
    [][\A t \in Threads :
          /\ (frame[t].pc = "refreshing" /\ frame'[t].pc = "retry") =>
                 /\ frame'[t].grant.kind = "ok"
                 /\ get_tokens' = <<frame'[t].grant.access_token,
                                    frame'[t].grant.refresh_token>>
                 /\ frame'[t].hdr = frame'[t].grant.access_token
                 /\ Truthy(frame'[t].grant.access_token)
                 /\ Truthy(frame'[t].grant.refresh_token)
          /\ (Ends(t, "retry") /\ frame'[t].second.kind = "ok") =>
                 /\ frame'[t].ret = OkRet(frame'[t].second, "retry")
                 /\ IF frame[t].op \in PassThroughOps
                    THEN get_tokens' = <<frame[t].grant.access_token,
                                        frame[t].grant.refresh_token>>
                    ELSE get_tokens' = <<None, None>>]_vars

\* C5 witness: an authenticated request has returned the result of its retried
\* request, and the tokens held are those of the second grant of the service
C5_Witness ==
    /\ frame[FG].pc = "idle" /\ frame[FG].op \in PassThroughOps
    /\ frame[FG].nretry = 1 /\ frame[FG].ret.kind = "ok" /\ frame[FG].ret.src = "retry"
    /\ get_tokens = <<AccessTok(2), RefreshTok(2)>>

\* C6: an authenticated call whose first attempt succeeds makes exactly one
\* session.request() call and no refresh; sending it changes neither the
\* Credential Pair nor the renewal timer, and neither does its return unless the
\* call is logout or logout_all.
C6_FirstAttemptSuccess ==
    [][\A t \in Threads :
          /\ (frame[t].pc = "idle" /\ frame'[t].pc = "first") =>
                 (frame'[t].op \in AuthOps => UNCHANGED clientVars)
          /\ (Ends(t, "first") /\ frame[t].op \in AuthOps
                 /\ frame'[t].ret.kind = "ok") =>
                 /\ frame'[t].ret.src = "first"
                 /\ frame'[t].ntransport = 1
                 /\ frame'[t].nrefresh = 0 /\ frame'[t].nretry = 0
                 /\ frame[t].op \in PassThroughOps => UNCHANGED clientVars]_vars

\* C6 witness: an authenticated request has returned the result of its first
\* attempt while tokens are held and a renewal timer is armed
C6_Witness ==
    /\ frame[FG].pc = "idle" /\ frame[FG].op \in PassThroughOps
    /\ frame[FG].ret.kind = "ok" /\ frame[FG].ret.src = "first"
    /\ Truthy(access_token) /\ LiveTimers(timers) # {}

\* a step that stores tokens: login or refresh got its 2xx answer, or set_tokens ran
StoresTokens == issued' # issued \/ (frame'[FG].op = "set_tokens" /\ SetTokens)

\* the renewal timer after a store of tokens with lifetime e
ArmedFor(e) ==
    IF e > 30
    THEN /\ refresh_timer # NoTimer
         /\ timers[refresh_timer].status = "started"
         /\ timers[refresh_timer].interval = e - 30
         /\ timers[refresh_timer].deadline = now + e - 30
         /\ LiveTimers(timers) = {refresh_timer}
    ELSE /\ refresh_timer = NoTimer
         /\ LiveTimers(timers) = {}

\* C7: with auto_refresh enabled, after every successful login, refresh or
\* set_tokens with lifetime expires_in (3600 when the answer has none) a renewal
\* timer is armed with interval expires_in - 30 if and only if expires_in > 30;
\* when expires_in <= 30 no timer is armed (3600 gives 3570, 10 gives none).
C7_TimerInterval ==
    [][(StoresTokens /\ auto_refresh) =>
          /\ ArmedFor(chain.expires_in)'
          /\ chain'.expires_in = 3600 => timers'[refresh_timer'].interval = 3570
          /\ chain'.expires_in = 10 => LiveTimers(timers') = {}]_vars

\* C7 witness: after a login whose answer carried no expires_in the timer is
\* armed with 3570 s
C7_Witness ==
    /\ auto_refresh /\ frame[FG].pc = "idle" /\ frame[FG].op = "login"
    /\ frame[FG].ret.kind = "ok" /\ chain.expires_in = 3600
    /\ refresh_timer # NoTimer /\ timers[refresh_timer].interval = 3570

\* C8: operations do not overlap here; in every state at most one renewal timer
\* is live (started, not cancelled, not fired), and it is the one the client
\* references: arming cancels the timer armed before, also when the timer's own
\* callback re-arms.
C8_OneLiveTimer ==
    /\ Cardinality(LiveTimers(timers)) <= 1
    /\ LiveTimers(timers) \subseteq {refresh_timer}

\* C8 witness: a timer's callback has refreshed and re-armed: that timer is
\* finished and exactly one other timer is live
C8_Witness ==
    \E i \in TimerIds :
        /\ timers[i].status = "finished" /\ frame[i].ret.kind = "ok"
        /\ Cardinality(LiveTimers(timers)) = 1 /\ chain.n = 2

\* C9: in every state between operations (and, as operations do not overlap
\* here, in every state) access_token and token_expires_at are both set or both
\* absent.
C9_AccessAndExpiryPaired ==
    (access_token = None) <=> (token_expires_at = None)

\* C9 witness: a logout that reached the service has cleared tokens that a
\* refresh had stored
C9_Witness ==
    /\ frame[FG].pc = "idle" /\ frame[FG].op = "logout" /\ frame[FG].nrefresh = 1
    /\ frame[FG].refreshed = "ok" /\ access_token = None /\ token_expires_at = None

\* C10 (as claimed): in a run of one successful login followed by successful
\* refreshes, token_expires_at after each refresh is strictly greater than before.
C10_AsClaimed ==
    [][(issued' # issued /\ chain'.n = 2) =>
          token_expires_at'[1] > token_expires_at[1]]_vars

\* C10 (amended): after each successful login or refresh token_expires_at is the
\* clock reading of that step plus the granted expires_in (3600 when absent); in
\* a run login -> refresh* it is strictly greater than before at every refresh
\* that is granted at least the lifetime of the previous grant and happens at a
\* later clock reading than that grant.
C10_ExpiryIsClockPlusLifetime ==
    [][(issued' # issued) =>
          /\ token_expires_at' = Some(now + chain'.expires_in)
          /\ (/\ chain'.n = 2
              /\ chain'.expires_in >= chain.expires_in
              /\ now > token_expires_at[1] - chain.expires_in)
             => token_expires_at'[1] > token_expires_at[1]]_vars

\* C10 witness: a refresh after a login, at a later clock reading, was granted a
\* shorter lifetime than the login
C10_Witness ==
    /\ chain.n = 2 /\ now > 0 /\ chain.expires_in = 10
    /\ token_expires_at = Some(now + 10)

\* C11: refresh() called while no refresh token is held (None, or the empty
\* string) raises JWTAuthError("No refresh token available") without a status,
\* makes no session.request() call, and changes neither the Credential Pair nor
\* the renewal timer.
C11_RefreshWithoutToken ==
    [][(Refresh /\ refresh_token \in {None, Empty}) =>
          /\ frame'[FG].pc = "idle"
          /\ frame'[FG].ret.kind = "fault"
          /\ frame'[FG].ret.msg = "No refresh token available"
          /\ frame'[FG].ret.status = NoStatus
          /\ frame'[FG].ntransport = 0
          /\ UNCHANGED clientVars]_vars

\* C11 witness: refresh() has raised the local fault while an access token
\* without a refresh token is held and the renewal timer is armed
C11_Witness ==
    /\ frame[FG].pc = "idle" /\ frame[FG].op = "refresh"
    /\ frame[FG].ret.msg = "No refresh token available"
    /\ frame[FG].ntransport = 0
    /\ Truthy(access_token) /\ refresh_token = Empty
    /\ LiveTimers(timers) # {}

\* C12: when the renewal timer fires and the refresh of its callback fails
\* (refresh() raised locally, or its request failed), the callback returns
\* without raising, access token, refresh token and expiry are unchanged, and
\* no timer is live afterwards; a timer becomes live again only in a step that
\* stores tokens (a 2xx answer to login or refresh, or set_tokens).
C12_FailedAutoRefreshIsDormant ==
    [][/\ \A i \in TimerIds :
            /\ frame'[i].pc = "idle" => frame'[i].ret.kind \in {NoRet.kind, "ok", "caught"}
            /\ (/\ timers[i].status \in {"started", "running"}
                /\ timers'[i].status = "finished"
                /\ frame'[i].ret.kind = "caught") =>
                   /\ UNCHANGED <<access_token, refresh_token, token_expires_at>>
                   /\ LiveTimers(timers') = {}
       /\ (LiveTimers(timers) = {} /\ LiveTimers(timers') # {}) => StoresTokens]_vars

\* C12 witness: the callback of the referenced timer has ended with its refresh
\* failed while both tokens are held, and no timer is live
C12_Witness ==
    \E i \in TimerIds :
        /\ frame[i].pc = "idle" /\ frame[i].ret.kind = "caught"
        /\ timers[i].status = "finished" /\ refresh_timer = i
        /\ Truthy(access_token) /\ Truthy(refresh_token)
        /\ LiveTimers(timers) = {}

\* C13: logout() called while no tokens are held (access token, refresh token
\* and expiry all absent) returns {"message": "Already logged out"} without
\* raising and without a session.request() call, and the state stays cleared,
\* with no timer live.
C13_LogoutWhenCleared ==
    [][(Logout /\ Cleared) =>
          /\ frame'[FG].pc = "idle"
          /\ frame'[FG].ret.kind = "ok"
          /\ frame'[FG].ret.msg = "Already logged out"
          /\ frame'[FG].ntransport = 0
          /\ Cleared'
          /\ LiveTimers(timers') = {}
          /\ UNCHANGED clientVars]_vars

\* C13 witness: after a session whose tokens the service had issued was
\* cleared, logout() has returned "Already logged out"
C13_Witness ==
    /\ frame[FG].pc = "idle" /\ frame[FG].op = "logout"
    /\ frame[FG].ret.msg = "Already logged out"
    /\ issued > 0 /\ Cleared

\* C14 (as claimed): when the first request of a public operation fails for a
\* transient condition with the adapter's retries used up (a failed connection,
\* or a forcelisted status to a method the adapter retries), the caller
\* receives a JWTAuthError, and it carries the last HTTP status if there was one.
C14_AsClaimed ==
    (frame[FG].pc = "idle" /\ frame[FG].first.kind = "exc") =>
        /\ frame[FG].ret.kind = "fault"
        /\ frame[FG].first.status # NoStatus => frame[FG].ret.status = frame[FG].first.status

\* C15: a call whose first attempt fails with an HTTP error that is not a 401
\* of an authenticated call makes no refresh() call and no retried request: the
\* caller receives a JWTAuthError with the status of that answer after one
\* session.request() call, and the return changes neither the Credential Pair
\* nor the timer unless the call is logout or logout_all; the nested refresh and
\* the retry happen only inside an authenticated call whose first answer was 401.
C15_NoRefreshNoRetry ==
    [][/\ (/\ Ends(FG, "first")
           /\ frame'[FG].first.kind = "http"
           /\ (frame[FG].op \in AuthOps => frame'[FG].first.status # 401)) =>
              /\ frame'[FG].ret.kind = "fault"
              /\ frame'[FG].ret.status = frame'[FG].first.status
              /\ frame'[FG].ret.status \in ErrStatus
              /\ frame'[FG].ntransport = 1
              /\ frame'[FG].nrefresh = 0 /\ frame'[FG].nretry = 0
              /\ frame[FG].op \notin {"logout", "logout_all"} => UNCHANGED clientVars
       /\ \A t \in Threads :
             frame'[t].pc \in {"refreshing", "retry"} =>
                /\ frame'[t].op \in AuthOps
                /\ frame'[t].first.kind = "http" /\ frame'[t].first.status = 401]_vars

\* C15 witness: login() has raised the fault of a 401 answer while both tokens
\* are held, without a refresh
C15_Witness ==
    /\ frame[FG].pc = "idle" /\ frame[FG].op = "login"
    /\ frame[FG].ret.kind = "fault" /\ frame[FG].ret.status = 401
    /\ frame[FG].nrefresh = 0 /\ frame[FG].ntransport = 1
    /\ Truthy(access_token) /\ Truthy(refresh_token)

\* thread t has the /auth/refresh request of a renewal in flight: the proactive
\* one of the timer callback (line 251), or the reactive one of line 80
RefreshInFlight(t) ==
    /\ frame[t].sub = ""
    /\ \/ frame[t].pc = "first" /\ frame[t].op = "auto_refresh"
       \/ frame[t].pc = "refreshing"

\* the refresh token in the body of that request
Redeemed(t) == IF frame[t].pc = "refreshing" THEN frame[t].rdata ELSE frame[t].data

\* a and r were stored by the same login, refresh or set_tokens, or cleared together
Paired(a, r) ==
    \/ a = None /\ r = None
    \/ a = AccessTok(0) /\ r \in {RefreshTok(0), Empty}
    \/ \E g \in 1..MaxIssue : a = AccessTok(g) /\ r = RefreshTok(g)

\* C16 (as claimed): once logout() or logout_all() has sent its request and
\* returned, and until the caller starts its next operation, access token,
\* refresh token and expiry are absent and no renewal timer is live, also when
\* a timer callback's refresh was in flight while logout ran.
C16_AsClaimed ==
    (/\ frame[FG].pc = "idle" /\ frame[FG].op \in {"logout", "logout_all"}
     /\ frame[FG].ntransport >= 1) =>
        Cleared /\ LiveTimers(timers) = {}

\* C17 (as claimed): of the renewals triggered by the timer and by a 401, at
\* most one has its /auth/refresh request in flight at any time, and no two
\* such requests in flight at the same time carry the same refresh token.
C17_AsClaimed ==
    /\ Cardinality({t \in Threads : RefreshInFlight(t)}) <= 1
    /\ \A t, u \in Threads :
          (t # u /\ RefreshInFlight(t) /\ RefreshInFlight(u)) => Redeemed(t) # Redeemed(u)

\* C18 (as claimed): what get_tokens() returned to a caller running beside the
\* other threads is an access token and a refresh token of the same generation.
C18_AsClaimed ==
    (frame[FG].pc = "idle" /\ frame[FG].op = "get_tokens") =>
        Paired(frame[FG].got[1], frame[FG].got[2])

\* C19 (as claimed): in every state of every interleaving at most one timer is
\* started and not cancelled, and it is the one _refresh_timer references.
C19_AsClaimed ==
    /\ Cardinality(LiveTimers(timers)) <= 1
    /\ \A i \in TimerIds : Live(timers, i) => refresh_timer = i

\* C20 (as claimed): once close() has returned, and until the caller starts
\* another operation, no renewal timer is pending, also when a timer callback
\* was inside its refresh while close() ran.
C20_AsClaimed ==
    (frame[FG].pc = "idle" /\ frame[FG].op = "close") => LiveTimers(timers) = {}

\* C21 (as claimed): every /auth/logout request of logout(), the first one and
\* the one retried after the refresh of line 80, carries in its body the
\* refresh token the client holds when the request is sent.
C21_AsClaimed ==
    [][(/\ frame'[FG].op = "logout"
        /\ frame'[FG].pc \in {"first", "retry"}
        /\ frame'[FG].pc # frame[FG].pc) =>
           frame'[FG].data = refresh_token']_vars

====
